---- MODULE Spec2Model ----
(***************************************************************************)
(* OrphanAccount<'info, T> (lang/src/accounts/orphan.rs): a typed handle   *)
(* over an AccountInfo.  The handle holds a decoded copy of T (`account`)  *)
(* and a clone of the AccountInfo (`info`); `exit` writes the copy back    *)
(* when the account's owner is the running program.                        *)
(*                                                                         *)
(* An AccountInfo is modelled by the fields the file reads: owner,         *)
(* lamports, is_writable, is_signer, key (the buffer's index) and the      *)
(* RefCell holding the data (its bytes and whether it is borrowed          *)
(* outside the handle).  The codec of T, BpfWriter and common::close are   *)
(* not part of orphan.rs; they are modelled from their description in the  *)
(* specification (tag + payload, reversible; the reclaim routine moves the *)
(* balance and writes the "closed" marker).                                *)
(***************************************************************************)
EXTENDS Integers, Sequences, FiniteSets, TLC

\* ------------------------------------------------------------------ bounds
MaxHandles == 2   \* OrphanAccount values alive at once
MaxLen == 2       \* longest data region of an account
MaxAccounts == 2  \* longest account list handed to try_accounts

\* the universe: two AccountInfos; bytes 0, 1 (T's tag) and 2 (the "closed"
\* tag); T with one field, 0 or 1, encoded in one byte; the system program and
\* one other program as owners and program ids
Buf == {1, 2}
Slot == 1..MaxHandles
Byte == 0..2
TVal == {0, 1}

\* system_program::ID
SystemProgramID == 0
Pubkey == {SystemProgramID, 1}

\* the accounts other programs write to during the instruction (CPI targets);
\* the remaining accounts change only through the handles
CpiBufs == {1}

NoHandle == [live |-> FALSE, info |-> 0, account |-> 0]
NoVal == "NoVal"
None == <<>>
Some(x) == <<x>>

RECURSIVE SeqsUpTo(_, _)
SeqsUpTo(S, n) ==
    IF n = 0 THEN {<<>>}
    ELSE LET shorter == SeqsUpTo(S, n - 1)
         IN  shorter \cup {Append(s, x) : s \in {t \in shorter : Len(t) = n - 1}, x \in S}

DataRegion == SeqsUpTo(Byte, MaxLen)

VARIABLES
    data,          \* data[b]: the bytes behind info.data
    data_borrow,   \* data_borrow[b]: "free" | "shared" | "excl", borrows held outside the handle
    owner,         \* owner[b]: info.owner
    lamports,      \* lamports[b]: info.lamports()
    is_writable,   \* is_writable[b]: info.is_writable
    is_signer,     \* is_signer[b]: info.is_signer
    handles,       \* handles[h]: NoHandle or the OrphanAccount {info, account}
    accounts,      \* the caller's `&mut &[AccountInfo]` of try_accounts
    anchor_debug,  \* whether the crate is built with feature "anchor-debug"
    last           \* the last call: [op, h, arg, res, val]

vars == <<data, data_borrow, owner, lamports, is_writable, is_signer,
          handles, accounts, anchor_debug, last>>

bufvars == <<data, data_borrow, owner, lamports, is_writable, is_signer>>

\* ------------------------------------------------------------------ results
Ok(v) == [ok |-> TRUE, err |-> "Ok", val |-> v]
Err(e) == [ok |-> FALSE, err |-> e, val |-> NoVal]

Ret(op, h, arg, res, val) == [op |-> op, h |-> h, arg |-> arg, res |-> res, val |-> val]

Live(h) == handles[h].live
Panicked == last.res = "Panic"

\* ------------------------------------------------------------------ codec of T
\* T's 'discriminator' (the leading type tag) and the tag common::close writes
Discriminator == <<1>>
ClosedDiscriminator == <<2>>
TagLen == Len(Discriminator)

\* AccountSerialize::try_serialize: tag, then the field
TrySerialize(v) == Discriminator \o <<v>>

\* AccountDeserialize::try_deserialize_unchecked: skip the tag, parse the layout
\* from what follows; bytes after the payload are ignored
TryDeserializeUnchecked(buf) ==
    IF Len(buf) < TagLen + 1 THEN Err("InvalidRecordPayload")
    ELSE IF buf[TagLen + 1] \notin TVal THEN Err("InvalidRecordPayload")
    ELSE Ok(buf[TagLen + 1])

\* AccountDeserialize::try_deserialize: the tag must be present and be T's
TryDeserialize(buf) ==
    IF Len(buf) < TagLen THEN Err("InvalidRecordTag")
    ELSE IF SubSeq(buf, 1, TagLen) # Discriminator THEN Err("InvalidRecordTag")
    ELSE TryDeserializeUnchecked(buf)

\* ------------------------------------------------------------------ AccountInfo
\* info.try_borrow_data(): fails while the RefCell is mutably borrowed
TryBorrowData(b) == data_borrow[b] # "excl"
\* a mutable borrow that is granted whatever the RefCell's state
BorrowMutUnchecked(b) == TRUE

\* info.try_borrow_mut_data(): fails while the RefCell is borrowed at all
TryBorrowMutData(b) == data_borrow[b] = "free"

\* ------------------------------------------------------------------ construction
FreeSlots == {h \in Slot : ~Live(h)}
NextSlot == CHOOSE h \in FreeSlots : \A g \in FreeSlots : h <= g

\* OrphanAccount::new
New(b, v) == [live |-> TRUE, info |-> b, account |-> v]

\* Construct with the initialization check written with `||`
ConstructEitherCheck(b, decoded) ==
    IF owner[b] = SystemProgramID \/ lamports[b] = 0 THEN Err("AccountNotInitialized")
    ELSE IF ~TryBorrowData(b) THEN Err("BorrowConflict")
    ELSE IF ~decoded.ok THEN decoded
    ELSE Ok(New(b, decoded.val))

\* the body shared by try_from and try_from_unchecked, `decoded` being the
\* codec's answer on the account's data
Construct(b, decoded) ==
    IF owner[b] = SystemProgramID /\ lamports[b] = 0 THEN Err("AccountNotInitialized")
    ELSE IF ~TryBorrowData(b) THEN Err("BorrowConflict")
    ELSE IF ~decoded.ok THEN decoded
    ELSE Ok(New(b, decoded.val))

\* try_from calling try_deserialize_unchecked
TryFromResultNoTagCheck(b) == Construct(b, TryDeserializeUnchecked(data[b]))

TryFromResult(b) == Construct(b, TryDeserialize(data[b]))
TryFromUncheckedResult(b) == Construct(b, TryDeserializeUnchecked(data[b]))

\* store a constructor's result in the next free slot
Bind(r) ==
    IF r.ok THEN handles' = [handles EXCEPT ![NextSlot] = r.val]
    ELSE UNCHANGED handles

TryFrom(b) ==
    /\ ~Panicked
    /\ FreeSlots # {}
    /\ LET r == TryFromResult(b) IN
        /\ Bind(r)
        /\ last' = Ret("try_from", IF r.ok THEN NextSlot ELSE 0, b, r.err, NoVal)
    /\ UNCHANGED <<bufvars, accounts, anchor_debug>>

TryFromUnchecked(b) ==
    /\ ~Panicked
    /\ FreeSlots # {}
    /\ LET r == TryFromUncheckedResult(b) IN
        /\ Bind(r)
        /\ last' = Ret("try_from_unchecked", IF r.ok THEN NextSlot ELSE 0, b, r.err, NoVal)
    /\ UNCHANGED <<bufvars, accounts, anchor_debug>>

\* ------------------------------------------------------------------ try_accounts
\* try_accounts without `*accounts = &accounts[1..]`
TryAccountsKeepsList ==
    /\ ~Panicked
    /\ FreeSlots # {}
    /\ IF accounts = <<>>
       THEN /\ last' = Ret("try_accounts", 0, 0, "AccountNotEnoughKeys", NoVal)
            /\ UNCHANGED <<handles, accounts>>
       ELSE LET account == accounts[1]
                r == TryFromResult(account)
            IN  /\ UNCHANGED accounts
                /\ Bind(r)
                /\ last' = Ret("try_accounts", IF r.ok THEN NextSlot ELSE 0, account, r.err, NoVal)
    /\ UNCHANGED <<bufvars, anchor_debug>>

TryAccounts ==
    /\ ~Panicked
    /\ FreeSlots # {}
    /\ IF accounts = <<>>
       THEN /\ last' = Ret("try_accounts", 0, 0, "AccountNotEnoughKeys", NoVal)
            /\ UNCHANGED <<handles, accounts>>
       ELSE LET account == accounts[1]
                r == TryFromResult(account)
            IN  /\ accounts' = SubSeq(accounts, 2, Len(accounts))
                /\ Bind(r)
                /\ last' = Ret("try_accounts", IF r.ok THEN NextSlot ELSE 0, account, r.err, NoVal)
    /\ UNCHANGED <<bufvars, anchor_debug>>

\* ------------------------------------------------------------------ reload, into_inner, set_inner
\* reload storing a default value before it knows the decode succeeded
ReloadTorn(h) ==
    /\ ~Panicked
    /\ Live(h)
    /\ LET b == handles[h].info
           r == IF ~TryBorrowData(b) THEN Err("BorrowConflict") ELSE TryDeserialize(data[b])
       IN  /\ handles' = [handles EXCEPT ![h].account = IF r.ok THEN r.val ELSE 0]
           /\ last' = Ret("reload", h, 0, r.err, NoVal)
    /\ UNCHANGED <<bufvars, accounts, anchor_debug>>

Reload(h) ==
    /\ ~Panicked
    /\ Live(h)
    /\ LET b == handles[h].info
           r == IF ~TryBorrowData(b) THEN Err("BorrowConflict") ELSE TryDeserialize(data[b])
       IN  /\ handles' = IF r.ok THEN [handles EXCEPT ![h].account = r.val] ELSE handles
           /\ last' = Ret("reload", h, 0, r.err, NoVal)
    /\ UNCHANGED <<bufvars, accounts, anchor_debug>>

IntoInner(h) ==
    /\ ~Panicked
    /\ Live(h)
    /\ handles' = [handles EXCEPT ![h] = NoHandle]
    /\ last' = Ret("into_inner", h, 0, "Ok", handles[h].account)
    /\ UNCHANGED <<bufvars, accounts, anchor_debug>>

SetInner(h, inner) ==
    /\ ~Panicked
    /\ Live(h)
    /\ handles' = [handles EXCEPT ![h].account = inner]
    /\ last' = Ret("set_inner", h, inner, "Ok", NoVal)
    /\ UNCHANGED <<bufvars, accounts, anchor_debug>>

\* ------------------------------------------------------------------ Deref, DerefMut
\* deref decoding the account's data when it can, instead of returning `account`
DerefRereads(h) ==
    /\ ~Panicked
    /\ Live(h)
    /\ LET r == TryDeserialize(data[handles[h].info])
       IN  last' = Ret("deref", h, 0, "Ok", IF r.ok THEN r.val ELSE handles[h].account)
    /\ UNCHANGED <<bufvars, handles, accounts, anchor_debug>>

Deref(h) ==
    /\ ~Panicked
    /\ Live(h)
    /\ last' = Ret("deref", h, 0, "Ok", handles[h].account)
    /\ UNCHANGED <<bufvars, handles, accounts, anchor_debug>>

\* deref_mut, and the caller's store of v through the reference it returns
DerefMut(h, v) ==
    /\ ~Panicked
    /\ Live(h)
    /\ IF anchor_debug /\ ~is_writable[handles[h].info]
       THEN /\ last' = Ret("deref_mut", h, v, "Panic", NoVal)
            /\ UNCHANGED handles
       ELSE /\ handles' = [handles EXCEPT ![h].account = v]
            /\ last' = Ret("deref_mut", h, v, "Ok", NoVal)
    /\ UNCHANGED <<bufvars, accounts, anchor_debug>>

\* ------------------------------------------------------------------ exit
Min(a, b) == IF a <= b THEN a ELSE b

\* BpfWriter over dst, written with src: copies what fits, and reports whether
\* all of src was written
BpfWrite(dst, src) ==
    LET n == Min(Len(dst), Len(src))
    IN  [ok |-> Len(src) <= Len(dst),
         bytes |-> SubSeq(src, 1, n) \o SubSeq(dst, n + 1, Len(dst))]

\* exit serializing the value without T's discriminator
ExitOnNoTag(dat, h, program_id) ==
    LET b == handles[h].info IN
    IF owner[b] = program_id
    THEN IF ~TryBorrowMutData(b) THEN [res |-> "BorrowConflict", data |-> dat]
         ELSE LET w == BpfWrite(dat[b], <<handles[h].account>>)
              IN  [res |-> IF w.ok THEN "Ok" ELSE "BufferTooSmall",
                   data |-> [dat EXCEPT ![b] = w.bytes]]
    ELSE [res |-> "Ok", data |-> dat]

\* exit without the owner check
ExitOnAnyOwner(dat, h, program_id) ==
    LET b == handles[h].info IN
    IF ~TryBorrowMutData(b) THEN [res |-> "BorrowConflict", data |-> dat]
    ELSE LET w == BpfWrite(dat[b], TrySerialize(handles[h].account))
         IN  [res |-> IF w.ok THEN "Ok" ELSE "BufferTooSmall",
              data |-> [dat EXCEPT ![b] = w.bytes]]

\* exit comparing program_id with a fixed id instead of the account's owner
ExitOnFixedProgram(dat, h, program_id) ==
    LET b == handles[h].info IN
    IF program_id = 1
    THEN IF ~TryBorrowMutData(b) THEN [res |-> "BorrowConflict", data |-> dat]
         ELSE LET w == BpfWrite(dat[b], TrySerialize(handles[h].account))
              IN  [res |-> IF w.ok THEN "Ok" ELSE "BufferTooSmall",
                   data |-> [dat EXCEPT ![b] = w.bytes]]
    ELSE [res |-> "Ok", data |-> dat]

\* exit dropping the writer's error
ExitOnTruncating(dat, h, program_id) ==
    LET b == handles[h].info IN
    IF owner[b] = program_id
    THEN IF ~TryBorrowMutData(b) THEN [res |-> "BorrowConflict", data |-> dat]
         ELSE LET w == BpfWrite(dat[b], TrySerialize(handles[h].account))
              IN  [res |-> "Ok", data |-> [dat EXCEPT ![b] = w.bytes]]
    ELSE [res |-> "Ok", data |-> dat]

\* exit of handle h for program_id on the data `dat` of all accounts
ExitOn(dat, h, program_id) ==
    LET b == handles[h].info IN
    IF owner[b] = program_id
    THEN IF ~TryBorrowMutData(b) THEN [res |-> "BorrowConflict", data |-> dat]
         ELSE LET w == BpfWrite(dat[b], TrySerialize(handles[h].account))
              IN  [res |-> IF w.ok THEN "Ok" ELSE "BufferTooSmall",
                   data |-> [dat EXCEPT ![b] = w.bytes]]
    ELSE [res |-> "Ok", data |-> dat]

Exit(h, program_id) ==
    /\ ~Panicked
    /\ Live(h)
    /\ LET r == ExitOn(data, h, program_id) IN
        /\ data' = r.data
        /\ last' = Ret("exit", h, program_id, r.res, NoVal)
    /\ UNCHANGED <<data_borrow, owner, lamports, is_writable, is_signer,
                   handles, accounts, anchor_debug>>

\* ------------------------------------------------------------------ close
\* crate::common::close(info, sol_destination): the balance goes to the
\* destination and the "closed" marker is written over the tag
CommonClose(b, dest) ==
    IF ~TryBorrowMutData(b)
    THEN [res |-> "BorrowConflict", data |-> data, lamports |-> lamports]
    ELSE LET w == BpfWrite(data[b], ClosedDiscriminator)
             moved == [lamports EXCEPT ![dest] = lamports[dest] + lamports[b]]
         IN  [res |-> IF w.ok THEN "Ok" ELSE "BufferTooSmall",
              data |-> [data EXCEPT ![b] = w.bytes],
              lamports |-> [moved EXCEPT ![b] = 0]]

Close(h, sol_destination) ==
    /\ ~Panicked
    /\ Live(h)
    /\ LET r == CommonClose(handles[h].info, sol_destination) IN
        /\ data' = r.data
        /\ lamports' = r.lamports
        /\ last' = Ret("close", h, sol_destination, r.res, NoVal)
    /\ UNCHANGED <<data_borrow, owner, is_writable, is_signer,
                   handles, accounts, anchor_debug>>

\* ------------------------------------------------------------------ exports
\* AccountMeta::new / AccountMeta::new_readonly
AccountMeta(pubkey, signer, writable) ==
    [pubkey |-> pubkey, is_signer |-> signer, is_writable |-> writable]

\* to_account_metas without `is_signer.unwrap_or(..)`
ToAccountMetasResultNoOverride(h, signer_opt) ==
    LET b == handles[h].info
    IN  <<AccountMeta(b, is_signer[b], is_writable[b])>>

ToAccountMetasResult(h, signer_opt) ==
    LET b == handles[h].info
        signer == IF signer_opt = None THEN is_signer[b] ELSE signer_opt[1]
    IN  <<AccountMeta(b, signer, is_writable[b])>>

ToAccountMetas(h, signer_opt) ==
    /\ ~Panicked
    /\ Live(h)
    /\ last' = Ret("to_account_metas", h, signer_opt, "Ok", ToAccountMetasResult(h, signer_opt))
    /\ UNCHANGED <<bufvars, handles, accounts, anchor_debug>>

ToAccountInfos(h) ==
    /\ ~Panicked
    /\ Live(h)
    /\ last' = Ret("to_account_infos", h, 0, "Ok", <<handles[h].info>>)
    /\ UNCHANGED <<bufvars, handles, accounts, anchor_debug>>

\* ------------------------------------------------------------------ environment
\* another program (a CPI) or the runtime changes the account out of band
StoreData(b, bytes) ==
    /\ ~Panicked
    /\ data_borrow[b] = "free"
    /\ bytes # data[b]
    /\ data' = [data EXCEPT ![b] = bytes]
    /\ last' = Ret("env", 0, b, "Ok", NoVal)
    /\ UNCHANGED <<data_borrow, owner, lamports, is_writable, is_signer,
                   handles, accounts, anchor_debug>>

Assign(b, new_owner) ==
    /\ ~Panicked
    /\ new_owner # owner[b]
    /\ owner' = [owner EXCEPT ![b] = new_owner]
    /\ last' = Ret("env", 0, b, "Ok", NoVal)
    /\ UNCHANGED <<data, data_borrow, lamports, is_writable, is_signer,
                   handles, accounts, anchor_debug>>

\* the caller takes or drops a Ref / RefMut of info.data
SetBorrow(b, s) ==
    /\ ~Panicked
    /\ s # data_borrow[b]
    /\ data_borrow' = [data_borrow EXCEPT ![b] = s]
    /\ last' = Ret("env", 0, b, "Ok", NoVal)
    /\ UNCHANGED <<data, owner, lamports, is_writable, is_signer,
                   handles, accounts, anchor_debug>>

\* ------------------------------------------------------------------ specifications
\* an account no other program touches: an initialized T owned by program 1
PlainAccount(b) ==
    /\ data[b] \in {TrySerialize(v) : v \in TVal}
    /\ owner[b] = 1
    /\ lamports[b] = 1

\* what every specification starts from: no handle yet, nothing borrowed;
\* the accounts outside CpiBufs are plain
InitCommon ==
    /\ data \in [Buf -> DataRegion]
    /\ owner \in [Buf -> Pubkey]
    /\ lamports \in [Buf -> 0..1]
    /\ \A b \in Buf \ CpiBufs : PlainAccount(b)
    /\ data_borrow = [b \in Buf |-> "free"]
    /\ is_signer = [b \in Buf |-> b \in CpiBufs]
    /\ handles = [h \in Slot |-> NoHandle]
    /\ last = Ret("init", 0, 0, "Ok", NoVal)

\* Spec: the life of handles during one instruction of a release build, over
\* writable, funded accounts: construction, mutation, reload after a CPI, exit
Init ==
    /\ InitCommon
    /\ \A b \in Buf : lamports[b] = 1
    /\ is_writable = [b \in Buf |-> TRUE]
    /\ accounts = <<>>
    /\ anchor_debug = FALSE

Next ==
    \/ \E b \in Buf : TryFrom(b)
    \/ \E b \in Buf : TryFromUnchecked(b)
    \/ \E h \in Slot : Reload(h)
    \/ \E h \in Slot, v \in TVal : SetInner(h, v)
    \/ \E h \in Slot, v \in TVal : DerefMut(h, v)
    \/ \E h \in Slot, program_id \in Pubkey : Exit(h, program_id)
    \/ \E b \in CpiBufs, bytes \in DataRegion : StoreData(b, bytes)
    \/ \E b \in CpiBufs, o \in Pubkey : Assign(b, o)
    \/ \E b \in CpiBufs, s \in {"free", "shared", "excl"} : SetBorrow(b, s)

Spec == Init /\ [][Next]_vars

\* SpecConstruct: construction on accounts in any state
InitConstruct ==
    /\ InitCommon
    /\ is_writable = [b \in Buf |-> TRUE]
    /\ accounts \in SeqsUpTo(Buf, MaxAccounts)
    /\ anchor_debug = FALSE

NextConstruct ==
    \/ \E b \in Buf : TryFrom(b)
    \/ \E b \in Buf : TryFromUnchecked(b)
    \/ TryAccounts
    \/ \E b \in CpiBufs, s \in {"free", "shared", "excl"} : SetBorrow(b, s)

SpecConstruct == InitConstruct /\ [][NextConstruct]_vars

\* SpecOps: every operation of the handle, with no interference from outside
NextOps ==
    \/ \E b \in Buf : TryFrom(b)
    \/ \E b \in Buf : TryFromUnchecked(b)
    \/ \E h \in Slot : Reload(h)
    \/ \E h \in Slot : IntoInner(h)
    \/ \E h \in Slot, v \in TVal : SetInner(h, v)
    \/ \E h \in Slot : Deref(h)
    \/ \E h \in Slot, v \in TVal : DerefMut(h, v)
    \/ \E h \in Slot, program_id \in Pubkey : Exit(h, program_id)
    \/ \E h \in Slot, dest \in Buf : Close(h, dest)
    \/ \E h \in Slot, signer_opt \in {None, Some(TRUE), Some(FALSE)} : ToAccountMetas(h, signer_opt)
    \/ \E h \in Slot : ToAccountInfos(h)

SpecOps == Init /\ [][NextOps]_vars

\* SpecMut: mutation through handles over writable and read-only accounts, in
\* builds with and without the feature "anchor-debug"
InitMut ==
    /\ InitCommon
    /\ \A b \in Buf : lamports[b] = 1
    /\ is_writable \in [Buf -> BOOLEAN]
    /\ accounts = <<>>
    /\ anchor_debug \in BOOLEAN

NextMut ==
    \/ \E b \in Buf : TryFrom(b)
    \/ \E h \in Slot : Deref(h)
    \/ \E h \in Slot, v \in TVal : DerefMut(h, v)
    \/ \E h \in Slot, v \in TVal : SetInner(h, v)
    \/ \E h \in Slot, program_id \in Pubkey : Exit(h, program_id)

SpecMut == InitMut /\ [][NextMut]_vars

\* SpecExport: the descriptors exported from handles over accounts with any
\* mutability flag; account 1 is a signer, account 2 is not
NextExport ==
    \/ \E b \in Buf : TryFrom(b)
    \/ \E h \in Slot, v \in TVal : SetInner(h, v)
    \/ \E h \in Slot, signer_opt \in {None, Some(TRUE), Some(FALSE)} : ToAccountMetas(h, signer_opt)
    \/ \E h \in Slot : ToAccountInfos(h)

SpecExport == InitMut /\ [][NextExport]_vars

\* SpecClose: close and exit on handles over accounts that all start as
\* initialized T records, so that a "closed" marker can only come from close
InitClose ==
    /\ Init
    /\ \A b \in Buf : PlainAccount(b)

NextClose ==
    \/ \E b \in Buf : TryFrom(b)
    \/ \E h \in Slot : Reload(h)
    \/ \E h \in Slot, v \in TVal : SetInner(h, v)
    \/ \E h \in Slot, dest \in Buf : Close(h, dest)
    \/ \E h \in Slot, program_id \in Pubkey : Exit(h, program_id)

SpecClose == InitClose /\ [][NextClose]_vars

\* SpecOwner: the owner of account 1 changes during the instruction; account 1
\* may hold no lamports
InitOwner ==
    /\ InitCommon
    /\ is_writable = [b \in Buf |-> TRUE]
    /\ accounts = <<>>
    /\ anchor_debug = FALSE

NextOwner ==
    \/ \E b \in Buf : TryFrom(b)
    \/ \E h \in Slot, v \in TVal : SetInner(h, v)
    \/ \E h \in Slot, program_id \in Pubkey : Exit(h, program_id)
    \/ \E b \in CpiBufs, o \in Pubkey : Assign(b, o)

SpecOwner == InitOwner /\ [][NextOwner]_vars

\* SpecStale: reads, writes and reloads of handles made by try_from while the
\* data of account 1 changes out of band; nothing is written back
NextStale ==
    \/ \E b \in Buf : TryFrom(b)
    \/ \E h \in Slot : Deref(h)
    \/ \E h \in Slot, v \in TVal : DerefMut(h, v)
    \/ \E h \in Slot, v \in TVal : SetInner(h, v)
    \/ \E h \in Slot : Reload(h)
    \/ \E b \in CpiBufs, bytes \in DataRegion : StoreData(b, bytes)

SpecStale == Init /\ [][NextStale]_vars

\* ------------------------------------------------------------------ properties
\* the account a handle is bound to
InfoOf(h) == handles[h].info

\* the account passes the check that opens try_from and try_from_unchecked
Initialized(b) == ~(owner[b] = SystemProgramID /\ lamports[b] = 0)

\* the data does not start with T's discriminator
TagMismatch(buf) == Len(buf) < TagLen \/ SubSeq(buf, 1, TagLen) # Discriminator

\* C1: after exit(program_id) has returned Ok on a handle whose account is owned
\* by program_id, the account's data decodes (strictly) to the handle's value.
ExitWriteBackFidelity ==
    (last.op = "exit" /\ last.res = "Ok" /\ owner[InfoOf(last.h)] = last.arg)
        => LET r == TryDeserialize(data[InfoOf(last.h)])
           IN  r.ok /\ r.val = handles[last.h].account

\* C1 witness: a matching exit returned Ok while a second handle over the same
\* account holds another value.
ExitWriteBackFidelityWitness ==
    /\ last.op = "exit" /\ last.res = "Ok"
    /\ owner[InfoOf(last.h)] = last.arg
    /\ \E g \in Slot : /\ Live(g) /\ g # last.h /\ InfoOf(g) = InfoOf(last.h)
                       /\ handles[g].account # handles[last.h].account

\* C2: exit(program_id) on a handle whose account has another owner returns Ok
\* and leaves the data of every account as it was.
ExitForeignOwnerNoop ==
    [][(last'.op = "exit" /\ owner[InfoOf(last'.h)] # last'.arg)
          => (last'.res = "Ok" /\ data' = data)]_vars

\* C2 witness: such an exit has returned while the handle's value differs from
\* what the account's data decodes to.
ExitForeignOwnerNoopWitness ==
    /\ last.op = "exit" /\ last.res = "Ok"
    /\ owner[InfoOf(last.h)] # last.arg
    /\ LET r == TryDeserialize(data[InfoOf(last.h)])
       IN  r.ok /\ r.val # handles[last.h].account

\* C3 (as claimed): close always returns an error and changes neither the data,
\* the owner nor the lamports of any account.
CloseAlwaysRejects ==
    [][last'.op = "close"
          => (last'.res # "Ok" /\ data' = data /\ owner' = owner /\ lamports' = lamports)]_vars

\* C4: try_from and try_from_unchecked return AccountNotInitialized exactly when
\* the account is owned by the system program and holds no lamports, whatever
\* its data and whoever borrows it; on any other account the answer is that of
\* borrowing the data and decoding it.
NotInitializedIff ==
    last.op \in {"try_from", "try_from_unchecked"}
        => IF ~Initialized(last.arg)
           THEN last.res = "AccountNotInitialized"
           ELSE /\ last.res # "AccountNotInitialized"
                /\ last.res =
                     IF data_borrow[last.arg] = "excl" THEN "BorrowConflict"
                     ELSE IF last.op = "try_from"
                          THEN TryDeserialize(data[last.arg]).err
                          ELSE TryDeserializeUnchecked(data[last.arg]).err

\* C4 witness: try_from_unchecked answered AccountNotInitialized on an account
\* whose data is exclusively borrowed elsewhere.
NotInitializedIffWitness ==
    /\ last.op = "try_from_unchecked"
    /\ last.res = "AccountNotInitialized"
    /\ data_borrow[last.arg] = "excl"

\* C5 (as claimed): on an initialized account whose data does not carry T's
\* tag, try_from fails with InvalidRecordTag and makes no handle, and
\* try_from_unchecked succeeds whenever what follows the tag parses as T.
TagMismatchRejected ==
    [][/\ (last'.op = "try_from" /\ Initialized(last'.arg) /\ TagMismatch(data[last'.arg]))
            => (last'.res = "InvalidRecordTag" /\ handles' = handles)
       /\ (/\ last'.op = "try_from_unchecked" /\ Initialized(last'.arg)
           /\ TagMismatch(data[last'.arg])
           /\ TryDeserializeUnchecked(data[last'.arg]).ok)
            => (/\ last'.res = "Ok"
                /\ handles'[last'.h] =
                     New(last'.arg, TryDeserializeUnchecked(data[last'.arg]).val))]_vars

\* C5 (amended): the same, for accounts whose data is not exclusively borrowed
\* elsewhere; on an exclusively borrowed one both constructors fail with
\* BorrowConflict and make no handle.
TagMismatchRejectedUnlessBorrowed ==
    [][/\ (/\ last'.op = "try_from" /\ Initialized(last'.arg)
           /\ TagMismatch(data[last'.arg]) /\ data_borrow[last'.arg] # "excl")
            => (last'.res = "InvalidRecordTag" /\ handles' = handles)
       /\ (/\ last'.op = "try_from_unchecked" /\ Initialized(last'.arg)
           /\ TagMismatch(data[last'.arg]) /\ data_borrow[last'.arg] # "excl"
           /\ TryDeserializeUnchecked(data[last'.arg]).ok)
            => (/\ last'.res = "Ok"
                /\ handles'[last'.h] =
                     New(last'.arg, TryDeserializeUnchecked(data[last'.arg]).val))
       /\ (/\ last'.op \in {"try_from", "try_from_unchecked"} /\ Initialized(last'.arg)
           /\ data_borrow[last'.arg] = "excl")
            => (last'.res = "BorrowConflict" /\ handles' = handles)]_vars

\* C5 witness: try_from has just failed with InvalidRecordTag on an account over
\* which try_from_unchecked had made a handle.
TagMismatchRejectedWitness ==
    /\ last.op = "try_from" /\ last.res = "InvalidRecordTag"
    /\ TagMismatch(data[last.arg])
    /\ \E h \in Slot : Live(h) /\ InfoOf(h) = last.arg

\* C6: a reload that fails changes no handle, and every live handle's value is
\* a value of T in every state.
ReloadFailureKeepsValue ==
    [][/\ (last'.op = "reload" /\ last'.res # "Ok") => handles' = handles
       /\ \A h \in Slot : handles'[h].live => handles'[h].account \in TVal]_vars

\* C6 witness: reload has failed on data that carries T's tag and a payload that
\* does not parse, and the handle still holds a value of T.
ReloadFailureKeepsValueWitness ==
    /\ last.op = "reload" /\ last.res = "InvalidRecordPayload"
    /\ Live(last.h)
    /\ ~TagMismatch(data[InfoOf(last.h)])
    /\ handles[last.h].account \in TVal

\* C7 (as claimed): deref_mut on a handle over a read-only account aborts or
\* returns MutationOnImmutable, and the handle's value is unchanged.
MutationOnImmutableRejected ==
    [][(last'.op = "deref_mut" /\ ~is_writable[InfoOf(last'.h)])
          => (last'.res \in {"Panic", "MutationOnImmutable"} /\ handles' = handles)]_vars

\* C8 (as claimed): the data of an account changes only in an exit whose
\* program_id is the account's owner.
DataChangesOnlyInOwnedExit ==
    [][data' # data
          => (last'.op = "exit" /\ owner[InfoOf(last'.h)] = last'.arg)]_vars

\* exit(program_id) run once on each handle of `order`, in that order
RECURSIVE ExitFold(_, _, _, _)
ExitFold(dat, res, order, program_id) ==
    IF order = <<>> THEN [data |-> dat, res |-> res]
    ELSE LET h == Head(order)
             r == ExitOn(dat, h, program_id)
         IN  ExitFold(r.data, [res EXCEPT ![h] = r.res], Tail(order), program_id)

ExitAll(order, program_id) ==
    ExitFold(data, [h \in Slot |-> "none"], order, program_id)

LiveOrders ==
    LET live == {h \in Slot : Live(h)}
    IN  {s \in [1..Cardinality(live) -> live] : \A i, j \in DOMAIN s : i # j => s[i] # s[j]}

\* C9 (as claimed): running exit(program_id) once on every live handle gives the
\* same data and the same results in every order.
ExitOrderInsensitive ==
    \A program_id \in Pubkey : \A p, q \in LiveOrders :
        ExitAll(p, program_id) = ExitAll(q, program_id)

\* C10: try_accounts on an empty list fails with AccountNotEnoughKeys and
\* leaves the list; on a non-empty list it answers what try_from answers on the
\* first account, binds the new handle to that account, and leaves the caller
\* the rest of the list in order.
TryAccountsConsumesFirst ==
    [][last'.op = "try_accounts"
          => IF accounts = <<>>
             THEN /\ last'.res = "AccountNotEnoughKeys"
                  /\ accounts' = accounts
                  /\ handles' = handles
             ELSE LET first == Head(accounts)
                      decoded == TryDeserialize(data[first])
                  IN  /\ accounts' = Tail(accounts)
                      /\ last'.arg = first
                      /\ last'.res = TryFromResult(first).err
                      /\ IF last'.res = "Ok"
                         THEN handles' = [handles EXCEPT
                                            ![last'.h] = New(first, decoded.val)]
                         ELSE handles' = handles]_vars

\* C10 witness: try_accounts made a handle from the first of two different
\* accounts and left the second.
TryAccountsConsumesFirstWitness ==
    /\ last.op = "try_accounts" /\ last.res = "Ok"
    /\ Len(accounts) = 1
    /\ InfoOf(last.h) = last.arg
    /\ accounts[1] # last.arg

\* C11: on an account whose data is exclusively borrowed elsewhere, try_from
\* and try_from_unchecked (once past the initialization check), reload, and exit
\* for the account's owner return BorrowConflict at once, and change neither
\* the data of any account nor any handle.
ExclusiveBorrowRejected ==
    [][(\/ /\ last'.op \in {"try_from", "try_from_unchecked"}
           /\ Initialized(last'.arg)
           /\ data_borrow[last'.arg] = "excl"
        \/ /\ last'.op = "reload"
           /\ data_borrow[InfoOf(last'.h)] = "excl"
        \/ /\ last'.op = "exit"
           /\ owner[InfoOf(last'.h)] = last'.arg
           /\ data_borrow[InfoOf(last'.h)] = "excl")
          => (last'.res = "BorrowConflict" /\ data' = data /\ handles' = handles)]_vars

\* C11 witness: exit for the owner has failed with BorrowConflict on an
\* exclusively borrowed account while the handle holds a value the data does
\* not decode to.
ExclusiveBorrowRejectedWitness ==
    /\ last.op = "exit" /\ last.res = "BorrowConflict"
    /\ owner[InfoOf(last.h)] = last.arg
    /\ data_borrow[InfoOf(last.h)] = "excl"
    /\ LET r == TryDeserialize(data[InfoOf(last.h)])
       IN  r.ok /\ r.val # handles[last.h].account

\* the handle's value as exit serializes it
Encoding(h) == TrySerialize(handles[h].account)

\* C12 (as claimed): exit for the account's owner fails with BufferTooSmall
\* whenever the value's encoding is longer than the data region, and when it
\* returns Ok the region starts with the whole encoding.
ExitTooSmallRejected ==
    [][(last'.op = "exit" /\ owner[InfoOf(last'.h)] = last'.arg)
          => LET b == InfoOf(last'.h)
                 enc == Encoding(last'.h)
             IN  /\ Len(enc) > Len(data[b]) => last'.res = "BufferTooSmall"
                 /\ last'.res = "Ok" => /\ Len(data'[b]) >= Len(enc)
                                        /\ SubSeq(data'[b], 1, Len(enc)) = enc]_vars

\* C12 (amended): the same for a data region nobody else borrows; on a borrowed
\* one the exit fails with BorrowConflict.
ExitTooSmallRejectedUnlessBorrowed ==
    [][(last'.op = "exit" /\ owner[InfoOf(last'.h)] = last'.arg)
          => LET b == InfoOf(last'.h)
                 enc == Encoding(last'.h)
             IN  /\ (Len(enc) > Len(data[b]) /\ data_borrow[b] = "free")
                      => last'.res = "BufferTooSmall"
                 /\ data_borrow[b] # "free" => last'.res = "BorrowConflict"
                 /\ last'.res = "Ok" => /\ Len(data'[b]) >= Len(enc)
                                        /\ SubSeq(data'[b], 1, Len(enc)) = enc]_vars

\* C12 witness: exit for the owner has failed with BufferTooSmall on a data
\* region shorter than the encoding of the handle's value.
ExitTooSmallRejectedWitness ==
    /\ last.op = "exit" /\ last.res = "BufferTooSmall"
    /\ owner[InfoOf(last.h)] = last.arg
    /\ Len(data[InfoOf(last.h)]) < Len(Encoding(last.h))

\* C13: to_account_metas returns one AccountMeta carrying the account's key,
\* its is_writable flag, and as is_signer the override when there is one and
\* the account's is_signer flag otherwise; no handle and no account changes.
ToAccountMetasFaithful ==
    /\ [](last.op = "to_account_metas"
            => LET b == InfoOf(last.h)
                   metas == last.val
               IN  /\ Len(metas) = 1
                   /\ metas[1].pubkey = b
                   /\ metas[1].is_writable = is_writable[b]
                   /\ metas[1].is_signer =
                         IF last.arg = None THEN is_signer[b] ELSE last.arg[1])
    /\ [][last'.op = "to_account_metas"
            => (handles' = handles /\ bufvars' = bufvars)]_vars

\* C13 witness: a handle over the signer account, which is read-only, has been
\* exported with the override Some(false).
ToAccountMetasFaithfulWitness ==
    /\ last.op = "to_account_metas"
    /\ last.arg = Some(FALSE)
    /\ is_signer[InfoOf(last.h)]
    /\ ~is_writable[InfoOf(last.h)]
    /\ last.val = <<AccountMeta(InfoOf(last.h), FALSE, FALSE)>>

\* the data starts with the marker common::close writes
Closed(buf) == Len(buf) >= Len(ClosedDiscriminator)
               /\ SubSeq(buf, 1, Len(ClosedDiscriminator)) = ClosedDiscriminator

\* C14 (as claimed): an exit on a handle whose account carries the "closed"
\* marker leaves the marker in place, so the account does not hold the handle's
\* encoded value again.
ClosedNeverResurrected ==
    [][(last'.op = "exit" /\ Closed(data[InfoOf(last'.h)]))
          => Closed(data'[InfoOf(last'.h)])]_vars

\* C15: exit looks at the owner the account has when exit runs: with an owner
\* other than program_id it returns Ok and changes no data, whatever the owner
\* was when the handle was made; with the owner equal to program_id a
\* successful exit leaves the data decoding to the handle's value.
ExitUsesCurrentOwner ==
    [][last'.op = "exit"
          => LET b == InfoOf(last'.h) IN
             IF owner[b] # last'.arg
             THEN last'.res = "Ok" /\ data' = data
             ELSE last'.res = "Ok"
                    => LET r == TryDeserialize(data'[b])
                       IN  r.ok /\ r.val = handles[last'.h].account]_vars

\* C15 witness: exit(1) was skipped on a handle over an account that is now
\* owned by the system program and holds no lamports: no handle can be made
\* over such an account, so the owner was 1 when the handle was made and was
\* changed afterwards; the handle's value is not what the data decodes to.
ExitUsesCurrentOwnerWitness ==
    /\ last.op = "exit" /\ last.res = "Ok" /\ last.arg = 1
    /\ owner[InfoOf(last.h)] = SystemProgramID
    /\ lamports[InfoOf(last.h)] = 0
    /\ LET r == TryDeserialize(data[InfoOf(last.h)])
       IN  r.ok /\ r.val # handles[last.h].account

\* C16: a handle's value changes only in deref_mut, set_inner or a successful
\* reload on that handle; a successful reload stores the strict decoding of the
\* account's data; deref returns the stored value and a change of the data from
\* outside touches no handle.
NoSilentReread ==
    /\ [](last.op = "deref" => last.val = handles[last.h].account)
    /\ [][/\ \A h \in Slot :
               (Live(h) /\ handles'[h].live /\ handles'[h].account # handles[h].account)
                   => /\ last'.h = h
                      /\ \/ last'.op \in {"deref_mut", "set_inner"}
                         \/ last'.op = "reload" /\ last'.res = "Ok"
          /\ (last'.op = "reload" /\ last'.res = "Ok")
               => LET r == TryDeserialize(data[InfoOf(last'.h)])
                  IN  r.ok /\ r.val = handles'[last'.h].account
          /\ last'.op \in {"deref", "env"} => handles' = handles]_vars

\* C16 witness: deref returned the stored value of a handle made by try_from
\* while the account's data no longer decodes: the data was changed after the
\* handle was made and the handle was not refreshed.
NoSilentRereadWitness ==
    /\ last.op = "deref"
    /\ Live(last.h)
    /\ last.val = handles[last.h].account
    /\ ~TryDeserialize(data[InfoOf(last.h)]).ok

\* C17 (as claimed): an exit that returns an error leaves the data of every
\* account as it was.
ExitErrorLeavesData ==
    [][(last'.op = "exit" /\ last'.res # "Ok") => data' = data]_vars

\* C18 (as claimed): exit changes no data of an account that is not writable.
ExitLeavesReadOnlyData ==
    [][(last'.op = "exit" /\ ~is_writable[InfoOf(last'.h)]) => data' = data]_vars

\* C19 (as claimed): try_accounts returning an error leaves the caller's list
\* of accounts as it was passed in.
TryAccountsFailureKeepsList ==
    [][(last'.op = "try_accounts" /\ last'.res # "Ok") => accounts' = accounts]_vars
====
